---- MODULE Spec2Model ----
(***************************************************************************)
(* ConfigKit: a singleton JSON configuration loader.                       *)
(*                                                                         *)
(*   src/src/configkit/configkit.py   ConfigKitMeta (registry, lock),      *)
(*                                    ConfigKit (pipeline, get, reload)    *)
(*   src/example/configuration.py     Configuration (additional_checks)    *)
(*                                                                         *)
(* Threads call the public operations; every operation is cut into the     *)
(* steps at which other threads can interleave: the registry look-ups of   *)
(* ConfigKitMeta.__call__, the acquisition of the lock, and the stages of  *)
(* the load / validate / check pipeline.  The file system is an            *)
(* environment that may change a file between any two steps.               *)
(***************************************************************************)
EXTENDS Integers, Sequences, FiniteSets, TLC

(***************************************************************************)
(* Bounds of the model.                                                    *)
(***************************************************************************)
\* objects ever allocated by ConfigKitMeta.__call__ (identities 1..MaxObjs)
MaxObjs == 2
\* public operations started over a behaviour
MaxOps == 3
\* changes the environment makes to the files
MaxWrites == 1
\* characters of a dot-path handed to get (SpecGet)
MaxPathLen == 3

Threads == {"t1", "t2"}
Paths == {"p1", "p2"}
\* Configuration overrides additional_checks, ConfigKit itself does not
Types == {"Configuration", "ConfigKit"}

\* json_file / schema_file not passed (kwargs.get gives None)
NoneArg == "<None>"
ArgPaths == {NoneArg, ""} \cup Paths

(***************************************************************************)
(* JSON values.  A value is a tree: a function from node addresses (the    *)
(* sequence of mapping keys leading to the node) to tags.  "obj" tags a    *)
(* mapping, any other tag is a leaf: "null", "false", "0", "5432", the     *)
(* empty string "''", the string "'x'", the arrays "[]" and "[database]".  *)
(* A key is a string, i.e. a sequence of characters.                       *)
(***************************************************************************)
Leaf(tag) == <<>> :> tag

Null == Leaf("null")
JFalse == Leaf("false")
JZero == Leaf("0")
JPort == Leaf("5432")
JEmptyStr == Leaf("''")
JStrX == Leaf("'x'")

IsDict(v) == v[<<>>] = "obj"

HasKey(v, key) == <<key>> \in DOMAIN v

\* v[key]: the subtree below key
Item(v, key) ==
    LET below == {a \in DOMAIN v : Len(a) >= 1 /\ a[1] = key}
    IN  [b \in {Tail(a) : a \in below} |-> v[<<key>> \o b]]

\* {key: child} as a one-entry mapping; Merge joins mappings with distinct keys
Entry(key, child) ==
    (<<>> :> "obj") @@ [a \in {<<key>> \o b : b \in DOMAIN child} |-> child[Tail(a)]]

Merge(m1, m2) == m1 @@ m2

EmptyObj == Leaf("obj")

(***************************************************************************)
(* Strings are sequences of characters over a small alphabet; "." is the   *)
(* separator of dot-paths.  The example's keys "database" and "host" are   *)
(* abbreviated to the one-letter strings "d" and "h".                      *)
(***************************************************************************)
Chars == {"d", "h", "."}
Database == <<"d">>
Host == <<"h">>
EmptyKey == <<>>

\* keywords of the schema vocabulary (never part of a dot-path)
KwRequired == <<"required">>
KwProperties == <<"properties">>
KwType == <<"type">>

(***************************************************************************)
(* The contents a file can have.  A readable file holds either text that   *)
(* is not well-formed JSON or the JSON value its text denotes.             *)
(***************************************************************************)
NotJson == Leaf("#not json")

\* {"d": {"h": "x"}}                      (example/config.json)
DocHost == Entry(Database, Entry(Host, JStrX))
\* {"d": 0}
DocFlat == Entry(Database, JZero)
\* {"required": ["d"], "properties": {"d": {"type": "object", "required": ["h"]}}}
SchemaExample ==
    Merge(Entry(KwRequired, Leaf("[d]")),
          Entry(KwProperties,
                Entry(Database, Merge(Entry(KwType, Leaf("'object'")),
                                      Entry(KwRequired, Leaf("[h]"))))))

Texts == {NotJson, DocHost, DocFlat, SchemaExample}

Missing == [exists |-> FALSE, readable |-> FALSE, text |-> NotJson]
Unreadable == [exists |-> TRUE, readable |-> FALSE, text |-> DocHost]
Readable(t) == [exists |-> TRUE, readable |-> TRUE, text |-> t]

FileStates == {Missing, Unreadable} \cup {Readable(t) : t \in Texts}

\* the file a path argument names; None and "" name no file
FileAt(files, path) == IF path \in Paths THEN files[path] ELSE Missing

(***************************************************************************)
(* Error kinds (spec names; the Python exception in brackets).             *)
(***************************************************************************)
MissingRequiredArguments == "MissingRequiredArguments"  \* ValueError, lines 26, 47
FileNotFound == "FileNotFound"                          \* FileNotFoundError
PermissionDenied == "PermissionDenied"                  \* PermissionError
InvalidJson == "InvalidJson"                            \* ValueError, line 76
SchemaViolation == "SchemaViolation"                    \* ValueError, line 85
SemanticCheckFailed == "SemanticCheckFailed"            \* ValueError of the subclass
NotImplemented == "NotImplemented"                      \* NotImplementedError
MissingKey == "MissingKey"                              \* KeyError, line 104
RegistryKeyError == "RegistryKeyError"                  \* KeyError of line 30
Ok == "ok"

(***************************************************************************)
(* What a call hands back: an object, a JSON value, None, or an error.     *)
(* p is the path a MissingKey error names; at is the step that raised;     *)
(* via is the way __call__ took to the object it returns.                  *)
(***************************************************************************)
Blank == [k |-> "none", o |-> 0, v |-> Null, e |-> "", p |-> <<>>, at |-> "", via |-> ""]
NoRet == Blank
RetObj(o, via) == [Blank EXCEPT !.k = "obj", !.o = o, !.via = via]
RetVal(v) == [Blank EXCEPT !.k = "val", !.v = v]
RetNone == [Blank EXCEPT !.k = "ok"]
RetErr(e, at) == [Blank EXCEPT !.k = "err", !.e = e, !.at = at]
RetMissingKey(path) == [Blank EXCEPT !.k = "err", !.e = MissingKey, !.p = path, !.at = "get"]

(***************************************************************************)
(* ConfigKit._check_files: for each of the two paths in turn, existence    *)
(* first, then readability.                                                *)
(***************************************************************************)
RECURSIVE CheckEach(_, _)
CheckEach(files, paths) ==
    IF paths = <<>> THEN Ok
    ELSE LET f == FileAt(files, Head(paths))
         IN  IF ~f.exists THEN FileNotFound
             ELSE IF ~f.readable THEN PermissionDenied
             ELSE CheckEach(files, Tail(paths))

\* mutant: only the document is checked
CheckDocumentOnly(files, json_file, schema_file) == CheckEach(files, <<json_file>>)

check_files(files, json_file, schema_file) ==
    CheckEach(files, <<json_file, schema_file>>)

(***************************************************************************)
(* ConfigKit._load_json: open() fails with the OS error when the file is   *)
(* gone or unreadable by now; json.load fails on malformed text.           *)
(***************************************************************************)
load_json(files, path) ==
    LET f == FileAt(files, path)
    IN  IF ~f.exists THEN [err |-> FileNotFound, value |-> Null]
        ELSE IF ~f.readable THEN [err |-> PermissionDenied, value |-> Null]
        ELSE IF f.text = NotJson THEN [err |-> InvalidJson, value |-> Null]
        ELSE [err |-> Ok, value |-> f.text]

(***************************************************************************)
(* Draft202012Validator(schema).validate(data), for the keywords "type":   *)
(* "object", "required" and "properties"; other keys of a schema are       *)
(* ignored, as the validator ignores unknown keywords.                     *)
(***************************************************************************)
Keys(v) == {a[1] : a \in {b \in DOMAIN v : Len(b) = 1}}

ArrayItems(tag) ==
    CASE tag = "[d]" -> {Database}
      [] tag = "[h]" -> {Host}
      [] OTHER -> {}

RECURSIVE Validates(_, _)
Validates(data, schema) ==
    IF ~IsDict(schema) THEN TRUE
    ELSE
      /\ (HasKey(schema, KwType) /\ Item(schema, KwType) = Leaf("'object'"))
            => IsDict(data)
      /\ (HasKey(schema, KwRequired) /\ IsDict(data))
            => \A key \in ArrayItems(schema[<<KwRequired>>]) : HasKey(data, key)
      /\ (HasKey(schema, KwProperties) /\ IsDict(data))
            => \A key \in Keys(Item(schema, KwProperties)) \cap Keys(data) :
                   Validates(Item(data, key), Item(Item(schema, KwProperties), key))

validate_schema(data, schema) ==
    IF Validates(data, schema) THEN Ok ELSE SchemaViolation

(***************************************************************************)
(* additional_checks: Configuration requires the "database" section; the   *)
(* base class raises NotImplementedError.                                  *)
(***************************************************************************)
\* mutant: the hook of the base class is a no-op ("pass")
ChecksOptional(class, data) ==
    IF class = "Configuration"
    THEN IF ~HasKey(data, Database) THEN SemanticCheckFailed ELSE Ok
    ELSE Ok

additional_checks(class, data) ==
    IF class = "Configuration"
    THEN IF ~HasKey(data, Database) THEN SemanticCheckFailed ELSE Ok
    ELSE NotImplemented

(***************************************************************************)
(* ConfigKit.get.                                                          *)
(***************************************************************************)
\* path.split("."): the pieces between the dots, empty pieces included
RECURSIVE SplitAcc(_, _, _)
SplitAcc(rest, done, word) ==
    IF rest = <<>> THEN Append(done, word)
    ELSE IF Head(rest) = "." THEN SplitAcc(Tail(rest), Append(done, word), <<>>)
    ELSE SplitAcc(Tail(rest), done, Append(word, Head(rest)))

\* mutant: the empty pieces are dropped, as str.split() without a separator does
SplitNoEmpty(path) == SelectSeq(SplitAcc(path, <<>>, <<>>), LAMBDA w : w # <<>>)

split(path) == SplitAcc(path, <<>>, <<>>)

\* line 101: not isinstance(current, dict) or key not in current
KeyUnavailable(current, key) == ~IsDict(current) \/ ~HasKey(current, key)

\* mutant: the truthiness test "if default:"
DefaultTruthy(default) ==
    default \notin {Null, JFalse, JZero, JEmptyStr, Leaf("[]"), Leaf("obj")}

\* line 102: default is not None
DefaultGiven(default) == default # Null

\* line 104: the KeyError names the whole path
KeyErrorFor(path, key) == RetMissingKey(path)

RECURSIVE GetLoop(_, _, _, _)
GetLoop(current, keys, path, default) ==
    IF keys = <<>> THEN RetVal(current)
    ELSE IF KeyUnavailable(current, Head(keys))
         THEN IF DefaultGiven(default) THEN RetVal(default)
              ELSE KeyErrorFor(path, Head(keys))
    ELSE GetLoop(Item(current, Head(keys)), Tail(keys), path, default)

get(data, path, default) == GetLoop(data, split(path), path, default)

(***************************************************************************)
(* State.                                                                  *)
(***************************************************************************)
VARIABLES
    fs,         \* the file system: path -> file
    instances,  \* ConfigKitMeta._instances: type -> object (0: no entry)
    lock,       \* ConfigKitMeta._lock: the thread holding it, or "free"
    heap,       \* the ConfigKit objects: identity -> attributes
    nextId,     \* identity of the next object allocated
    pc,         \* where each thread is
    op,         \* the operation a thread runs (or ran last)
    cls,        \* getInstance: the type requested
    kw,         \* getInstance: the keyword arguments
    self,       \* the object a thread constructs or reloads
    published,  \* the objects getInstance has handed out: callers hold them
    current,    \* get: the local variable current, as read at line 99
    gpath,      \* get: the path argument
    gdefault,   \* get: the default argument
    ret,        \* what the thread's last call handed back
    route,      \* history: how the running getInstance reached line 30
    before,     \* history: data and schema when the running reload or get began
    waited,     \* history: outcome of the construction of its type that
                \* completed while the thread's getInstance waited for the lock
    returned,   \* history: objects getInstance returned since the last reset
    builds,     \* history: constructions stored since the last reset
    lastRun,    \* history: outcome of the pipeline run that finished last
    ops,        \* operations started
    writes      \* file changes made

vars == <<fs, instances, lock, heap, nextId, pc, op, cls, kw, self, published,
          current, gpath, gdefault, ret, route, before, waited, returned,
          builds, lastRun, ops, writes>>

history == <<returned, builds, lastRun>>
budget == <<ops, writes>>

ObjIds == 1..MaxObjs

\* attribute not set yet (before _load_files)
Unset == Leaf("#unset")

NoObj == [class |-> "", json_file |-> NoneArg, schema_file |-> NoneArg,
          data |-> Unset, schema |-> Unset]

NoKw == [json_file |-> NoneArg, schema_file |-> NoneArg]
NoBefore == [data |-> Unset, schema |-> Unset, writes |-> 0]

Stages == <<"check_files", "load_data", "load_schema", "validate_schema",
            "additional_checks">>

PipelinePcs == {Stages[i] : i \in 1..Len(Stages)}

ThreadInit ==
    /\ pc = [t \in Threads |-> "idle"]
    /\ op = [t \in Threads |-> "none"]
    /\ cls = [t \in Threads |-> ""]
    /\ kw = [t \in Threads |-> NoKw]
    /\ self = [t \in Threads |-> 0]
    /\ current = [t \in Threads |-> Unset]
    /\ gpath = [t \in Threads |-> <<>>]
    /\ gdefault = [t \in Threads |-> Null]
    /\ ret = [t \in Threads |-> NoRet]
    /\ route = [t \in Threads |-> ""]
    /\ before = [t \in Threads |-> NoBefore]
    /\ waited = [t \in Threads |-> ""]

\* after import: empty registry, free lock; the files are whatever they are
Init ==
    /\ fs \in [Paths -> FileStates]
    /\ instances = [ty \in Types |-> 0]
    /\ lock = "free"
    /\ heap = [o \in ObjIds |-> NoObj]
    /\ nextId = 1
    /\ published = {}
    /\ ThreadInit
    /\ returned = [ty \in Types |-> {}]
    /\ builds = [ty \in Types |-> 0]
    /\ lastRun = [o \in ObjIds |-> "none"]
    /\ ops = 0
    /\ writes = 0

(***************************************************************************)
(* Calls begin and end.                                                    *)
(***************************************************************************)
\* a call begins: the locals of the thread's earlier call are dead
Begin(th, operation) ==
    /\ pc[th] = "idle"
    /\ ops < MaxOps
    /\ ops' = ops + 1
    /\ op' = [op EXCEPT ![th] = operation]
    /\ ret' = [ret EXCEPT ![th] = NoRet]

\* a call ends with result r: its frame is gone; the arguments it was
\* called with stay recorded until the thread's next call
End(th, r) ==
    /\ pc' = [pc EXCEPT ![th] = "idle"]
    /\ ret' = [ret EXCEPT ![th] = r]
    /\ self' = [self EXCEPT ![th] = 0]
    /\ current' = [current EXCEPT ![th] = Unset]
    /\ route' = [route EXCEPT ![th] = ""]
    /\ before' = [before EXCEPT ![th] = NoBefore]

\* a call moves on to its next step
Goto(th, label) ==
    /\ pc' = [pc EXCEPT ![th] = label]
    /\ UNCHANGED <<ret, current>>

(***************************************************************************)
(* ConfigKitMeta.__call__                                                  *)
(***************************************************************************)
\* threads that will allocate an object if they find no entry under the lock
Pending == {t \in Threads : pc[t] \in {"m_acquire", "m_locked"}}

\* cls in cls._instances
Registered(registry, type) == registry[type] # 0

\* mutant: the arguments are checked before the registry is looked at
FastPathChecksArgs(registry, type, json_file, schema_file) ==
    Registered(registry, type) /\ json_file \notin {NoneArg, ""}
                               /\ schema_file \notin {NoneArg, ""}

\* mutant: no unlocked look-up, every call goes for the lock
AlwaysLock(registry, type, json_file, schema_file) == FALSE

\* line 22: the unlocked look-up decides alone, whatever the arguments
FastPath(registry, type, json_file, schema_file) == Registered(registry, type)

\* mutant: the lock is not waited for
LockIgnored(holder) == TRUE

\* line 23: the lock can be taken
LockFree(holder) == holder = "free"

\* mutant: no second look-up under the lock
NoRecheck(registry, type) == FALSE

\* line 24: the look-up repeated under the lock
Recheck(registry, type) == Registered(registry, type)

\* lines 25 and 46: not json_file or not schema_file
Falsy(arg) == arg \in {NoneArg, ""}
\* mutant: "and" for "or"
ArgsBothMissing(kwargs) == Falsy(kwargs.json_file) /\ Falsy(kwargs.schema_file)

ArgsMissing(kwargs) == Falsy(kwargs.json_file) \/ Falsy(kwargs.schema_file)

\* mutant: __init__ lines 48-49 run again on the registered object when a
\* call passes both paths
getInstanceRebinds(th, type, json_file, schema_file) ==
    /\ Begin(th, "getInstance")
    /\ Registered(instances, type) \/ nextId + Cardinality(Pending) <= MaxObjs
    /\ cls' = [cls EXCEPT ![th] = type]
    /\ kw' = [kw EXCEPT ![th] = [json_file |-> json_file, schema_file |-> schema_file]]
    /\ current' = [current EXCEPT ![th] = Unset]
    /\ gpath' = [gpath EXCEPT ![th] = <<>>]
    /\ gdefault' = [gdefault EXCEPT ![th] = Null]
    /\ IF FastPath(instances, type, json_file, schema_file)
       THEN /\ pc' = [pc EXCEPT ![th] = "m_return"]
            /\ route' = [route EXCEPT ![th] = "fast"]
            /\ heap' = IF Falsy(json_file) \/ Falsy(schema_file) THEN heap
                       ELSE [heap EXCEPT ![instances[type]].json_file = json_file,
                                         ![instances[type]].schema_file = schema_file]
       ELSE /\ pc' = [pc EXCEPT ![th] = "m_acquire"]
            /\ route' = [route EXCEPT ![th] = ""]
            /\ heap' = heap
    /\ waited' = [waited EXCEPT ![th] = ""]
    /\ UNCHANGED <<fs, instances, lock, nextId, self, published, before, history,
                   writes>>

\* line 21-22: the call and its unlocked look-up
getInstance(th, type, json_file, schema_file) ==
    /\ Begin(th, "getInstance")
    /\ Registered(instances, type) \/ nextId + Cardinality(Pending) <= MaxObjs
    /\ cls' = [cls EXCEPT ![th] = type]
    /\ kw' = [kw EXCEPT ![th] = [json_file |-> json_file, schema_file |-> schema_file]]
    /\ current' = [current EXCEPT ![th] = Unset]
    /\ gpath' = [gpath EXCEPT ![th] = <<>>]
    /\ gdefault' = [gdefault EXCEPT ![th] = Null]
    /\ IF FastPath(instances, type, json_file, schema_file)
       THEN /\ pc' = [pc EXCEPT ![th] = "m_return"]
            /\ route' = [route EXCEPT ![th] = "fast"]
       ELSE /\ pc' = [pc EXCEPT ![th] = "m_acquire"]
            /\ route' = [route EXCEPT ![th] = ""]
    /\ waited' = [waited EXCEPT ![th] = ""]
    /\ UNCHANGED <<fs, instances, lock, heap, nextId, self, published, before, history,
                   writes>>

\* line 23: with cls._lock
Acquire(th) ==
    /\ pc[th] = "m_acquire"
    /\ LockFree(lock)
    /\ lock' = th
    /\ Goto(th, "m_locked")
    /\ UNCHANGED <<fs, instances, heap, nextId, op, cls, kw, self, published, gpath,
                   gdefault, route, before, waited, history, budget>>

\* lines 24-29 up to the start of the pipeline, and __init__ lines 46-49
Locked(th) ==
    /\ pc[th] = "m_locked"
    /\ IF Recheck(instances, cls[th])
       THEN /\ lock' = "free"
            /\ Goto(th, "m_return")
            /\ route' = [route EXCEPT ![th] = "locked"]
            /\ UNCHANGED <<heap, nextId, self, before>>
       ELSE IF ArgsMissing(kw[th])
       THEN /\ lock' = "free"
            /\ End(th, RetErr(MissingRequiredArguments, "args"))
            /\ UNCHANGED <<heap, nextId>>
       ELSE /\ heap' = [heap EXCEPT ![nextId] =
                          [class |-> cls[th], json_file |-> kw[th].json_file,
                           schema_file |-> kw[th].schema_file,
                           data |-> Unset, schema |-> Unset]]
            /\ self' = [self EXCEPT ![th] = nextId]
            /\ nextId' = nextId + 1
            /\ Goto(th, "check_files")
            /\ UNCHANGED <<lock, route, before>>
    /\ UNCHANGED <<fs, instances, op, cls, kw, published, gpath, gdefault, waited, history,
                   budget>>

\* line 30: return cls._instances[cls]
Return(th) ==
    /\ pc[th] = "m_return"
    /\ IF Registered(instances, cls[th])
       THEN /\ End(th, RetObj(instances[cls[th]], route[th]))
            /\ published' = published \cup {instances[cls[th]]}
            /\ returned' = [returned EXCEPT ![cls[th]] = @ \cup {instances[cls[th]]}]
       ELSE /\ End(th, RetErr(RegistryKeyError, "return"))
            /\ UNCHANGED <<published, returned>>
    /\ UNCHANGED <<fs, instances, lock, heap, nextId, op, cls, kw, gpath, gdefault,
                   waited, builds, lastRun, budget>>

\* mutant: only the entry of the base type is removed
ResetBaseTypeOnly ==
    /\ ops < MaxOps
    /\ ops' = ops + 1
    /\ instances' = [instances EXCEPT !["ConfigKit"] = 0]
    /\ returned' = [ty \in Types |-> {}]
    /\ builds' = [ty \in Types |-> 0]
    /\ waited' = [t \in Threads |-> ""]
    /\ UNCHANGED <<fs, lock, heap, nextId, pc, op, cls, kw, self, published, current,
                   gpath, gdefault, ret, route, before, lastRun, writes>>

\* lines 32-35: cls._instances.clear()
reset ==
    /\ ops < MaxOps
    /\ ops' = ops + 1
    /\ instances' = [ty \in Types |-> 0]
    /\ returned' = [ty \in Types |-> {}]
    /\ builds' = [ty \in Types |-> 0]
    /\ waited' = [t \in Threads |-> ""]
    /\ UNCHANGED <<fs, lock, heap, nextId, pc, op, cls, kw, self, published, current,
                   gpath, gdefault, ret, route, before, lastRun, writes>>

(***************************************************************************)
(* The pipeline: __init__ lines 51-54 and reload lines 112-115, one step   *)
(* per stage, on the object the thread constructs or reloads.              *)
(***************************************************************************)
\* the object of a failed construction is referenced by nobody: it is
\* garbage, and its identity is free again
Discard(objects, object) == [objects EXCEPT ![object] = NoObj]

Range(f) == {f[x] : x \in DOMAIN f}

\* mutant: the object is stored before its constructor has finished
StoredAnyway(registry, type, object) == [registry EXCEPT ![type] = object]

\* line 29: when super().__call__ raises, the assignment is not reached
AfterFailure(registry, type, object) == registry

\* the construction of thread th is over: the threads that found no entry
\* for its type and wait for the lock have waited through it
Waiters(th) == {t \in Threads : pc[t] = "m_acquire" /\ cls[t] = cls[th]}

WaitedThrough(th, outcome) ==
    [t \in Threads |-> IF t \in Waiters(th) THEN outcome ELSE waited[t]]

\* mutant: the lock is taken with acquire() and released after the store
\* only, so that an exception of the constructor leaves it held
RaiseKeepsLock(th, error) ==
    /\ End(th, RetErr(error, pc[th]))
    /\ IF op[th] = "getInstance"
       THEN /\ heap' = Discard(heap, self[th])
            /\ nextId' = nextId - 1
            /\ waited' = WaitedThrough(th, "failed")
            /\ UNCHANGED <<lastRun, instances, lock>>
       ELSE /\ lastRun' = [lastRun EXCEPT ![self[th]] = "failed"]
            /\ UNCHANGED <<instances, lock, heap, nextId, waited>>
    /\ UNCHANGED builds

\* a stage raised: the exception leaves __init__ (through the with block of
\* __call__, which releases the lock and stores nothing) or leaves reload
Raise(th, error) ==
    /\ End(th, RetErr(error, pc[th]))
    /\ IF op[th] = "getInstance"
       THEN /\ lock' = "free"
            /\ instances' = AfterFailure(instances, cls[th], self[th])
            /\ heap' = IF self[th] \in Range(instances') THEN heap
                       ELSE Discard(heap, self[th])
            /\ nextId' = IF self[th] \in Range(instances') THEN nextId
                         ELSE nextId - 1
            /\ waited' = WaitedThrough(th, "failed")
            /\ UNCHANGED lastRun
       ELSE /\ lastRun' = [lastRun EXCEPT ![self[th]] = "failed"]
            /\ UNCHANGED <<instances, lock, heap, nextId, waited>>
    /\ UNCHANGED builds

\* the stage passed, leaving the objects as given
Pass(th, label, objects) ==
    /\ Goto(th, label)
    /\ heap' = objects
    /\ UNCHANGED <<lock, lastRun, instances, builds, self, route, before, waited, nextId>>

\* line 29: cls._instances[cls] = <the new object>
Store(registry, type, object) == [registry EXCEPT ![type] = object]

\* the last stage passed: __call__ stores the object and leaves the with
\* block; reload returns None
Finish(th) ==
    /\ lastRun' = [lastRun EXCEPT ![self[th]] = "ok"]
    /\ UNCHANGED <<heap, nextId>>
    /\ IF op[th] = "getInstance"
       THEN /\ instances' = Store(instances, cls[th], self[th])
            /\ lock' = "free"
            /\ builds' = [builds EXCEPT ![cls[th]] = @ + 1]
            /\ route' = [route EXCEPT ![th] = "built"]
            /\ Goto(th, "m_return")
            /\ waited' = WaitedThrough(th, "ok")
            /\ UNCHANGED <<self, before>>
       ELSE /\ End(th, RetNone)
            /\ UNCHANGED <<instances, lock, builds, waited>>

\* lines 51, 112
CheckFiles(th) ==
    /\ pc[th] = "check_files"
    /\ LET r == check_files(fs, heap[self[th]].json_file, heap[self[th]].schema_file)
       IN  IF r = Ok THEN Pass(th, "load_data", heap) ELSE Raise(th, r)
    /\ UNCHANGED <<fs, op, cls, kw, published, gpath, gdefault, returned, budget>>

\* mutant: the document is read from either of the two paths
LoadDataEitherPath(th) ==
    /\ pc[th] = "load_data"
    /\ \E path \in {heap[self[th]].json_file, heap[self[th]].schema_file} :
         LET r == load_json(fs, path)
         IN  IF r.err = Ok
             THEN Pass(th, "load_schema", [heap EXCEPT ![self[th]].data = r.value])
             ELSE Raise(th, r.err)
    /\ UNCHANGED <<fs, op, cls, kw, published, gpath, gdefault, returned, budget>>

\* line 67: self.data = self._load_json(self._json_file)
LoadData(th) ==
    /\ pc[th] = "load_data"
    /\ LET r == load_json(fs, heap[self[th]].json_file)
       IN  IF r.err = Ok
           THEN Pass(th, "load_schema", [heap EXCEPT ![self[th]].data = r.value])
           ELSE Raise(th, r.err)
    /\ UNCHANGED <<fs, op, cls, kw, published, gpath, gdefault, returned, budget>>

\* line 68: self.schema = self._load_json(self._schema_file)
LoadSchema(th) ==
    /\ pc[th] = "load_schema"
    /\ LET r == load_json(fs, heap[self[th]].schema_file)
       IN  IF r.err = Ok
           THEN Pass(th, "validate_schema", [heap EXCEPT ![self[th]].schema = r.value])
           ELSE Raise(th, r.err)
    /\ UNCHANGED <<fs, op, cls, kw, published, gpath, gdefault, returned, budget>>

\* lines 53, 114
ValidateSchema(th) ==
    /\ pc[th] = "validate_schema"
    /\ LET r == validate_schema(heap[self[th]].data, heap[self[th]].schema)
       IN  IF r = Ok THEN Pass(th, "additional_checks", heap) ELSE Raise(th, r)
    /\ UNCHANGED <<fs, op, cls, kw, published, gpath, gdefault, returned, budget>>

\* lines 54, 115
AdditionalChecks(th) ==
    /\ pc[th] = "additional_checks"
    /\ LET r == additional_checks(heap[self[th]].class, heap[self[th]].data)
       IN  IF r = Ok THEN Finish(th) ELSE Raise(th, r)
    /\ UNCHANGED <<fs, op, cls, kw, published, gpath, gdefault, returned, budget>>

(***************************************************************************)
(* ConfigKit.reload and ConfigKit.get, called on the reference held.       *)
(***************************************************************************)
\* line 108
reload(th, object) ==
    /\ Begin(th, "reload")
    /\ object \in published
    /\ self' = [self EXCEPT ![th] = object]
    /\ before' = [before EXCEPT ![th] =
                    [data |-> heap[object].data, schema |-> heap[object].schema,
                     writes |-> writes]]
    /\ pc' = [pc EXCEPT ![th] = "check_files"]
    /\ cls' = [cls EXCEPT ![th] = ""]
    /\ kw' = [kw EXCEPT ![th] = NoKw]
    /\ current' = [current EXCEPT ![th] = Unset]
    /\ gpath' = [gpath EXCEPT ![th] = <<>>]
    /\ gdefault' = [gdefault EXCEPT ![th] = Null]
    /\ UNCHANGED <<fs, instances, lock, heap, nextId, published, route, waited, history,
                   writes>>

\* lines 92-99: current = self.data
GetRead(th, object, path, default) ==
    /\ Begin(th, "get")
    /\ object \in published
    /\ self' = [self EXCEPT ![th] = object]
    /\ current' = [current EXCEPT ![th] = heap[object].data]
    /\ gpath' = [gpath EXCEPT ![th] = path]
    /\ gdefault' = [gdefault EXCEPT ![th] = default]
    /\ pc' = [pc EXCEPT ![th] = "get_loop"]
    /\ cls' = [cls EXCEPT ![th] = ""]
    /\ kw' = [kw EXCEPT ![th] = NoKw]
    /\ before' = [before EXCEPT ![th] = [NoBefore EXCEPT !.data = heap[object].data]]
    /\ UNCHANGED <<fs, instances, lock, heap, nextId, published, route, waited, history,
                   writes>>

\* mutant: self.data is read again after the first key
GetWalkRereads(th) ==
    /\ pc[th] = "get_loop"
    /\ LET keys == split(gpath[th])
           now == heap[self[th]].data
       IN  End(th, IF KeyUnavailable(current[th], Head(keys))
                   THEN IF DefaultGiven(gdefault[th]) THEN RetVal(gdefault[th])
                        ELSE KeyErrorFor(gpath[th], Head(keys))
                   ELSE IF KeyUnavailable(now, Head(keys))
                   THEN RetMissingKey(Head(keys))
                   ELSE GetLoop(Item(now, Head(keys)), Tail(keys), gpath[th],
                                gdefault[th]))
    /\ UNCHANGED <<fs, instances, lock, heap, nextId, op, cls, kw, published, gpath, gdefault,
                   waited, history, budget>>

\* lines 100-106
GetWalk(th) ==
    /\ pc[th] = "get_loop"
    /\ End(th, get(current[th], gpath[th], gdefault[th]))
    /\ UNCHANGED <<fs, instances, lock, heap, nextId, op, cls, kw, published, gpath, gdefault,
                   waited, history, budget>>

(***************************************************************************)
(* The environment changes a file.                                         *)
(***************************************************************************)
WriteFile(path, file) ==
    /\ writes < MaxWrites
    /\ file # fs[path]
    /\ fs' = [fs EXCEPT ![path] = file]
    /\ writes' = writes + 1
    /\ UNCHANGED <<instances, lock, heap, nextId, pc, op, cls, kw, self, published,
                   current, gpath, gdefault, ret, route, before, waited, history, ops>>

(***************************************************************************)
(* The arguments the callers of the model pass.                            *)
(***************************************************************************)
\* json_file and schema_file: the first absent, the second empty, both, both swapped
CallKw == {<<NoneArg, "p2">>, <<"p1", "">>, <<"p1", "p2">>, <<"p2", "p1">>}

\* "d.h" (example: get_db_host), with or without a default
PathDH == <<"d", ".", "h">>
CallPaths == {PathDH}
CallDefaults == {Null, JPort}

Next ==
    \/ \E th \in Threads, type \in Types, a \in CallKw :
          getInstance(th, type, a[1], a[2])
    \/ \E th \in Threads : Acquire(th)
    \/ \E th \in Threads : Locked(th)
    \/ \E th \in Threads : Return(th)
    \/ reset
    \/ \E th \in Threads : CheckFiles(th)
    \/ \E th \in Threads : LoadData(th)
    \/ \E th \in Threads : LoadSchema(th)
    \/ \E th \in Threads : ValidateSchema(th)
    \/ \E th \in Threads : AdditionalChecks(th)
    \/ \E th \in Threads, object \in ObjIds : reload(th, object)
    \/ \E th \in Threads, object \in ObjIds, path \in CallPaths, default \in CallDefaults :
          GetRead(th, object, path, default)
    \/ \E th \in Threads : GetWalk(th)
    \/ \E path \in Paths, file \in FileStates : WriteFile(path, file)

Spec == Init /\ [][Next]_vars

(***************************************************************************)
(* Scheduling of ConfigKitMeta.__call__: the threads call getInstance and  *)
(* reset while the environment may write the files.  A thread that can     *)
(* take the next step of its running call eventually takes it: every       *)
(* stage of the pipeline terminates, and the lock is handed to a waiting   *)
(* thread once it stays free.  Callers are not obliged to start calls,     *)
(* and the environment not to write files.                                 *)
(***************************************************************************)
\* at the start each file is absent or holds the example document; the
\* other contents come about by writes
InitLive == Init /\ \A path \in Paths : fs[path] \in {Missing, Readable(DocHost)}

NextLive ==
    \/ \E th \in Threads, type \in Types, a \in CallKw :
          getInstance(th, type, a[1], a[2])
    \/ \E th \in Threads : Acquire(th)
    \/ \E th \in Threads : Locked(th)
    \/ \E th \in Threads : Return(th)
    \/ reset
    \/ \E th \in Threads : CheckFiles(th)
    \/ \E th \in Threads : LoadData(th)
    \/ \E th \in Threads : LoadSchema(th)
    \/ \E th \in Threads : ValidateSchema(th)
    \/ \E th \in Threads : AdditionalChecks(th)
    \/ \E path \in Paths, file \in FileStates : WriteFile(path, file)

Progress(th) ==
    \/ Acquire(th) \/ Locked(th) \/ Return(th)
    \/ CheckFiles(th) \/ LoadData(th) \/ LoadSchema(th)
    \/ ValidateSchema(th) \/ AdditionalChecks(th)

SpecLive == InitLive /\ [][NextLive]_vars /\ \A th \in Threads : WF_vars(Progress(th))

(***************************************************************************)
(* get as a pure function: a specification whose initial states hold one   *)
(* Configuration built from a document of GetDocs, and whose one caller    *)
(* applies get to every dot-path of up to MaxPathLen characters and every  *)
(* default of GetDefaults.                                                 *)
(***************************************************************************)
\* {"d": {"h": {"d": false}, "": null}, "h": ""}
DocDeep ==
    Merge(Entry(Database, Merge(Entry(Host, Entry(Database, JFalse)),
                                Entry(EmptyKey, Null))),
          Entry(Host, JEmptyStr))
\* {"d": {}, "d.h": "x", "": {"": 0, "h": []}}
DocDotted ==
    Merge(Entry(Database, EmptyObj),
          Merge(Entry(<<"d", ".", "h">>, JStrX),
                Entry(EmptyKey, Merge(Entry(EmptyKey, JZero),
                                      Entry(Host, Leaf("[]"))))))

GetDocs == {DocHost, DocFlat, DocDeep, DocDotted}
GetDefaults == {Null, JZero, JEmptyStr, JFalse, JPort}
GetPaths == UNION {[1..n -> Chars] : n \in 0..MaxPathLen}
GetCaller == "t1"

InitGet ==
    /\ \E doc \in GetDocs :
         /\ fs = [path \in Paths |-> IF path = "p1" THEN Readable(doc)
                                     ELSE Readable(EmptyObj)]
         /\ heap = [o \in ObjIds |->
                      IF o = 1 THEN [class |-> "Configuration", json_file |-> "p1",
                                     schema_file |-> "p2", data |-> doc,
                                     schema |-> EmptyObj]
                      ELSE NoObj]
    /\ instances = [ty \in Types |-> IF ty = "Configuration" THEN 1 ELSE 0]
    /\ lock = "free"
    /\ nextId = 2
    /\ published = {1}
    /\ ThreadInit
    /\ returned = [ty \in Types |-> IF ty = "Configuration" THEN {1} ELSE {}]
    /\ builds = [ty \in Types |-> IF ty = "Configuration" THEN 1 ELSE 0]
    /\ lastRun = [o \in ObjIds |-> IF o = 1 THEN "ok" ELSE "none"]
    /\ ops = 0
    /\ writes = 0

NextGet ==
    \/ \E path \in GetPaths, default \in GetDefaults :
          GetRead(GetCaller, 1, path, default)
    \/ GetWalk(GetCaller)

SpecGet == InitGet /\ [][NextGet]_vars

(***************************************************************************)
(* Vocabulary of the properties.                                           *)
(***************************************************************************)
\* thread th takes a step from label a to label b
Step(th, a, b) == pc[th] = a /\ pc'[th] = b

\* the positions of the dots of a path, and the keys they delimit: key n
\* lies between dot n-1 and dot n
Dots(path) == {i \in 1..Len(path) : path[i] = "."}
DotNo(path, n) ==
    CHOOSE i \in Dots(path) : Cardinality({j \in Dots(path) : j < i}) = n - 1
KeysOf(path) ==
    LET last == Cardinality(Dots(path)) + 1
    IN  [n \in 1..last |->
           SubSeq(path,
                  IF n = 1 THEN 1 ELSE DotNo(path, n - 1) + 1,
                  IF n = last THEN Len(path) ELSE DotNo(path, n) - 1)]

\* every key of the sequence is found, each in a mapping
Resolves(data, keys) ==
    \A i \in 1..Len(keys) :
       /\ SubSeq(keys, 1, i - 1) \in DOMAIN data
       /\ data[SubSeq(keys, 1, i - 1)] = "obj"
       /\ SubSeq(keys, 1, i) \in DOMAIN data

\* the value at the end of the keys
Terminal(data, keys) ==
    LET n == Len(keys)
        under == {a \in DOMAIN data : Len(a) >= n /\ SubSeq(a, 1, n) = keys}
    IN  [b \in {SubSeq(a, n + 1, Len(a)) : a \in under} |-> data[keys \o b]]

GetReference(data, path, default) ==
    IF Resolves(data, KeysOf(path)) THEN RetVal(Terminal(data, KeysOf(path)))
    ELSE IF default # Null THEN RetVal(default)
    ELSE RetMissingKey(path)

FalsyDefaults == {JZero, JEmptyStr, JFalse}

(***************************************************************************)
(* C8: get(path, default) equals the reference: with the path split on     *)
(* the dots, the terminal value when every key is found in a mapping,      *)
(* else the default when it is not null, else MissingKey naming the whole  *)
(* path; get reads the data of the object it is called on and changes no   *)
(* object.                                                                 *)
(***************************************************************************)
C8_GetMatchesReference ==
    [][\A th \in Threads :
         /\ Step(th, "idle", "get_loop") =>
               /\ current'[th] = heap[self'[th]].data
               /\ heap' = heap
         /\ Step(th, "get_loop", "idle") =>
               /\ ret'[th] = GetReference(current[th], gpath[th], gdefault[th])
               /\ heap' = heap]_vars

\* get("d.h", default) on {"d": {"h": "x"}} handed back the nested string
C8_Witness ==
    \E th \in Threads :
       /\ pc[th] = "idle" /\ op[th] = "get"
       /\ gpath[th] = PathDH
       /\ gdefault[th] = JPort
       /\ heap[1].data = DocHost
       /\ ret[th] = RetVal(JStrX)

(***************************************************************************)
(* C9 as stated: a get whose path does not resolve and whose default is    *)
(* 0, the empty string or false fails with MissingKey.                     *)
(***************************************************************************)
C9_FalsyDefaultRejected ==
    [][\A th \in Threads :
         (/\ Step(th, "get_loop", "idle")
          /\ ~Resolves(current[th], KeysOf(gpath[th]))
          /\ gdefault[th] \in FalsyDefaults)
         => ret'[th].e = MissingKey]_vars

(***************************************************************************)
(* C9 amended: only a null default counts as no default.  A get whose      *)
(* path does not resolve hands back any non-null default, 0, the empty     *)
(* string and false included, and fails with MissingKey when the default   *)
(* is null.                                                                *)
(***************************************************************************)
C9_OnlyNullIsNoDefault ==
    [][\A th \in Threads :
         (/\ Step(th, "get_loop", "idle")
          /\ ~Resolves(current[th], KeysOf(gpath[th])))
         => /\ gdefault[th] # Null => ret'[th] = RetVal(gdefault[th])
            /\ gdefault[th] = Null => ret'[th].e = MissingKey]_vars

\* get("h.d", default=0) on {"d": 0} handed back 0
C9_Witness ==
    \E th \in Threads :
       /\ pc[th] = "idle" /\ op[th] = "get"
       /\ heap[1].data = DocFlat
       /\ gpath[th] = <<"h", ".", "d">>
       /\ gdefault[th] = JZero
       /\ ret[th] = RetVal(JZero)

\* thread th runs the pipeline for a first construction / for a reload
Constructing(th) == op[th] = "getInstance" /\ pc[th] \in PipelinePcs
Reloading(th) == op[th] = "reload" /\ pc[th] \in PipelinePcs

\* thread th has returned from getInstance with an object, by the given way
Got(th, type, via) ==
    /\ pc[th] = "idle" /\ op[th] = "getInstance" /\ cls[th] = type
    /\ ret[th].k = "obj" /\ ret[th].via = via

PipelineErrors == {FileNotFound, PermissionDenied, InvalidJson, SchemaViolation,
                   SemanticCheckFailed, NotImplemented}

(***************************************************************************)
(* C1: for each type, all the getInstance calls that return between two    *)
(* resets return one and the same object, whatever arguments they pass.    *)
(***************************************************************************)
C1_Singleton ==
    \A type \in Types :
       /\ Cardinality(returned[type]) <= 1
       /\ Registered(instances, type) => returned[type] \subseteq {instances[type]}

\* one thread built the object, the other got the same one on the fast way,
\* passing paths that name no file pair the object was built from
C1_Witness ==
    \E t1, t2 \in Threads :
       /\ Got(t1, "Configuration", "built")
       /\ Got(t2, "Configuration", "fast")
       /\ ret[t1].o = ret[t2].o
       /\ kw[t1] # kw[t2]

(***************************************************************************)
(* C2: concurrent first requests for a type construct once: at most one    *)
(* thread at a time is in a construction, it constructs only while the     *)
(* type has no entry, at most one construction is stored per type (until   *)
(* a reset), an entry is there only through that one construction, and     *)
(* all callers get its object.                                             *)
(***************************************************************************)
C2_OneConstruction ==
    /\ Cardinality({th \in Threads : Constructing(th)}) <= 1
    /\ \A th \in Threads : Constructing(th) =>
          /\ lock = th
          /\ ~Registered(instances, cls[th])
          /\ builds[cls[th]] = 0
    /\ \A type \in Types :
          /\ builds[type] <= 1
          /\ Registered(instances, type) => builds[type] = 1
          /\ returned[type] # {} => builds[type] = 1
          /\ Cardinality(returned[type]) <= 1

\* both threads asked while no entry was there: one built the object, the
\* other waited for the lock, found the entry and returned the same object
C2_Witness ==
    \E t1, t2 \in Threads :
       /\ Got(t1, "Configuration", "built")
       /\ Got(t2, "Configuration", "locked")
       /\ ret[t1].o = ret[t2].o
       /\ builds["Configuration"] = 1

(***************************************************************************)
(* C3: a getInstance call that finds no entry for its type under the lock  *)
(* and lacks a non-empty document path or schema path fails with           *)
(* MissingRequiredArguments without running a stage, creating an object    *)
(* or touching the registry; a call with both paths whose pipeline passes  *)
(* stores its object, and returns it (a reset in between apart).           *)
(***************************************************************************)
C3_FirstCallNeedsPaths ==
    [][\A th \in Threads :
         /\ (/\ pc[th] = "m_locked" /\ pc'[th] # "m_locked"
             /\ ~Registered(instances, cls[th])
             /\ \/ kw[th].json_file \in {NoneArg, ""}
                \/ kw[th].schema_file \in {NoneArg, ""})
            => /\ pc'[th] = "idle"
               /\ ret'[th] = RetErr(MissingRequiredArguments, "args")
               /\ instances' = instances /\ heap' = heap /\ nextId' = nextId
               /\ lock' = "free"
         /\ (Constructing(th) /\ pc'[th] = "m_return")
            => /\ kw[th].json_file \in Paths /\ kw[th].schema_file \in Paths
               /\ instances'[cls[th]] = self[th]
               /\ route'[th] = "built"
         /\ (Step(th, "m_return", "idle") /\ route[th] = "built"
                /\ Registered(instances, cls[th]))
            => /\ ret'[th] = RetObj(instances[cls[th]], "built")
               /\ instances' = instances]_vars

\* a call without schema_file failed while the type had no entry, and
\* nothing was registered or allocated
C3_Witness ==
    \E th \in Threads :
       /\ pc[th] = "idle" /\ op[th] = "getInstance"
       /\ ret[th] = RetErr(MissingRequiredArguments, "args")
       /\ kw[th] = [json_file |-> "p1", schema_file |-> ""]
       /\ instances = [type \in Types |-> 0]
       /\ nextId = 1

(***************************************************************************)
(* C4: a stage that fails during a construction hands its error to the     *)
(* caller of getInstance and leaves the type without an entry and the      *)
(* lock free; the construction that later passes registers an object       *)
(* built from the paths of its own call.                                   *)
(***************************************************************************)
C4_FailedConstructionLeavesNoEntry ==
    [][\A th \in Threads :
         /\ (Constructing(th) /\ pc'[th] = "idle")
            => /\ ret'[th].k = "err"
               /\ ret'[th].e \in PipelineErrors
               /\ ret'[th].at = pc[th]
               /\ instances' = instances
               /\ ~Registered(instances', cls[th])
               /\ lock' = "free"
         /\ (Constructing(th) /\ pc'[th] = "m_return")
            => LET object == heap'[instances'[cls[th]]]
               IN  /\ object.class = cls[th]
                   /\ object.json_file = kw[th].json_file
                   /\ object.schema_file = kw[th].schema_file
                   /\ Validates(object.data, object.schema)]_vars

\* with the files never changed: a construction of Configuration failed
\* its semantic checks, and a later call with the two paths exchanged
\* built and registered the object
C4_Witness ==
    \E t1, t2 \in Threads :
       /\ writes = 0
       /\ pc[t1] = "idle" /\ op[t1] = "getInstance" /\ cls[t1] = "Configuration"
       /\ ret[t1] = RetErr(SemanticCheckFailed, "additional_checks")
       /\ Got(t2, "Configuration", "built")
       /\ kw[t2] # kw[t1]
       /\ instances["Configuration"] = ret[t2].o
       /\ heap[ret[t2].o].json_file = kw[t2].json_file
       /\ heap[ret[t2].o].schema_file = kw[t2].schema_file

(***************************************************************************)
(* C5: a reload that fails leaves data and schema as they were when the    *)
(* reload was called.                                                      *)
(***************************************************************************)
C5_FailedReloadKeepsState ==
    [][\A th \in Threads :
         (Reloading(th) /\ pc'[th] = "idle" /\ ret'[th].k = "err")
         => /\ heap'[self[th]].data = before[th].data
            /\ heap'[self[th]].schema = before[th].schema]_vars

(***************************************************************************)
(* C6: whenever a type has a registered object whose pipeline run that     *)
(* finished last passed, and no reload of it is under way, its data        *)
(* validates against its schema and passes the semantic checks.            *)
(***************************************************************************)
C6_ValidAfterSuccessfulRun ==
    \A type \in Types :
       LET object == instances[type]
       IN  (/\ Registered(instances, type)
            /\ lastRun[object] = "ok"
            /\ \A th \in Threads : ~(Reloading(th) /\ self[th] = object))
           => /\ Validates(heap[object].data, heap[object].schema)
              /\ additional_checks(heap[object].class, heap[object].data) = Ok

(***************************************************************************)
(* C7: a getInstance call that finds an entry for its type at its first    *)
(* look-up goes straight to the return, whatever paths it passes, and      *)
(* returns the registered object; neither step runs a stage, takes the     *)
(* lock or changes the registry or any object.                             *)
(***************************************************************************)
C7_ExistingInstanceReturned ==
    [][\A th \in Threads :
         /\ (/\ pc[th] = "idle" /\ pc'[th] # "idle" /\ op'[th] = "getInstance"
             /\ Registered(instances, cls'[th]))
            => /\ pc'[th] = "m_return" /\ route'[th] = "fast"
               /\ instances' = instances /\ heap' = heap /\ lock' = lock
         /\ (Step(th, "m_return", "idle") /\ route[th] = "fast"
               /\ Registered(instances, cls[th]))
            => /\ ret'[th] = RetObj(instances[cls[th]], "fast")
               /\ instances' = instances /\ heap' = heap /\ lock' = lock]_vars

\* a call without json_file, and whose schema_file is the stored document
\* path, returned the registered object
C7_Witness ==
    \E th \in Threads :
       /\ Got(th, "Configuration", "fast")
       /\ kw[th] = [json_file |-> NoneArg, schema_file |-> "p2"]
       /\ instances["Configuration"] = ret[th].o
       /\ heap[ret[th].o].json_file = "p2"
       /\ heap[ret[th].o].schema_file = "p1"

(***************************************************************************)
(* C10: a run enters the pipeline at the file check and takes the stages   *)
(* in the order file check, parse of the document, parse of the schema,    *)
(* schema validation, semantic checks; the first check that fails decides  *)
(* the error and ends the run: document exists, document readable, schema  *)
(* exists, schema readable, document parses, schema parses, document       *)
(* conforms; and additional_checks is invoked only on data that validates  *)
(* against the schema.  (A file found inaccessible only when it is opened  *)
(* ends the run with the error of the operating system.)                   *)
(***************************************************************************)
C10_StagesInOrder ==
    [][\A th \in Threads :
         LET object == heap[self[th]]
             doc == FileAt(fs, object.json_file)
             sch == FileAt(fs, object.schema_file)
             Failed(error) == pc'[th] = "idle" /\ ret'[th] = RetErr(error, pc[th])
             Passed(next) == pc'[th] = next
         IN  /\ (pc[th] \notin PipelinePcs /\ pc'[th] \in PipelinePcs)
                   => pc'[th] = "check_files"
             /\ Step(th, "check_files", pc'[th]) /\ pc'[th] # pc[th]
                   => IF ~doc.exists THEN Failed(FileNotFound)
                      ELSE IF ~doc.readable THEN Failed(PermissionDenied)
                      ELSE IF ~sch.exists THEN Failed(FileNotFound)
                      ELSE IF ~sch.readable THEN Failed(PermissionDenied)
                      ELSE Passed("load_data")
             /\ Step(th, "load_data", pc'[th]) /\ pc'[th] # pc[th]
                   => IF ~(doc.exists /\ doc.readable)
                      THEN pc'[th] = "idle" /\ ret'[th].k = "err"
                      ELSE IF doc.text = NotJson THEN Failed(InvalidJson)
                      ELSE Passed("load_schema") /\ heap'[self[th]].data = doc.text
             /\ Step(th, "load_schema", pc'[th]) /\ pc'[th] # pc[th]
                   => IF ~(sch.exists /\ sch.readable)
                      THEN pc'[th] = "idle" /\ ret'[th].k = "err"
                      ELSE IF sch.text = NotJson THEN Failed(InvalidJson)
                      ELSE Passed("validate_schema")
                           /\ heap'[self[th]].schema = sch.text
             /\ Step(th, "validate_schema", pc'[th]) /\ pc'[th] # pc[th]
                   => IF ~Validates(object.data, object.schema)
                      THEN Failed(SchemaViolation)
                      ELSE Passed("additional_checks")
             /\ Step(th, "additional_checks", pc'[th]) /\ pc'[th] # pc[th]
                   => /\ Validates(object.data, object.schema)
                      /\ pc'[th] \in {"idle", "m_return"}]_vars

(***************************************************************************)
(* C11: ConfigKit itself does not override additional_checks.  A           *)
(* construction of that type which has passed the file check, both parses  *)
(* and the schema validation fails at its semantic checks with             *)
(* NotImplemented, and the registry never holds an entry for the type.     *)
(***************************************************************************)
C11_NoOverrideNeverRegisters ==
    [][/\ ~Registered(instances, "ConfigKit")
       /\ ~Registered(instances', "ConfigKit")
       /\ \A th \in Threads :
             (/\ Constructing(th) /\ cls[th] = "ConfigKit"
              /\ pc[th] = "additional_checks" /\ pc'[th] # pc[th])
             => /\ pc'[th] = "idle"
                /\ ret'[th] = RetErr(NotImplemented, "additional_checks")
                /\ lock' = "free"]_vars

\* with the files as they were at the start, a construction of ConfigKit
\* from a document that validates against its schema failed with
\* NotImplemented
C11_Witness ==
    \E th \in Threads :
       /\ writes = 0
       /\ fs["p1"] = Readable(DocHost) /\ fs["p2"] = Readable(SchemaExample)
       /\ pc[th] = "idle" /\ op[th] = "getInstance" /\ cls[th] = "ConfigKit"
       /\ kw[th] = [json_file |-> "p1", schema_file |-> "p2"]
       /\ ret[th] = RetErr(NotImplemented, "additional_checks")
       /\ ~Registered(instances, "ConfigKit")

\* when thread th called the reload it runs, the two files held valid
\* content equal to the data and the schema of the object, and no file has
\* been written since
FilesAsLoaded(th) ==
    LET object == heap[self[th]]
    IN  /\ writes = before[th].writes
        /\ FileAt(fs, object.json_file) = Readable(before[th].data)
        /\ FileAt(fs, object.schema_file) = Readable(before[th].schema)
        /\ Validates(before[th].data, before[th].schema)
        /\ additional_checks(object.class, before[th].data) = Ok

(***************************************************************************)
(* C12: a reload called while the document and schema files are valid and  *)
(* hold what the object has loaded from them, and during which no file     *)
(* changes, passes every stage, returns normally and leaves data and       *)
(* schema equal to their values at the call, so that every get gives what  *)
(* it gave before; this holds of a first reload and of the one after it.   *)
(***************************************************************************)
C12_ReloadIdempotent ==
    [][\A th \in Threads :
         (Reloading(th) /\ pc'[th] # pc[th] /\ FilesAsLoaded(th))
         => /\ pc'[th] \in PipelinePcs \cup {"idle"}
            /\ pc'[th] = "idle" => ret'[th] = RetNone
            /\ heap'[self[th]].data = before[th].data
            /\ heap'[self[th]].schema = before[th].schema
            /\ \A path \in CallPaths, default \in CallDefaults :
                  get(heap'[self[th]].data, path, default)
                     = get(before[th].data, path, default)]_vars

\* with no file ever written, two reloads of the example object returned
\* normally and the object holds the document and schema it was built with
C12_Witness ==
    /\ writes = 0
    /\ \A th \in Threads :
          pc[th] = "idle" /\ op[th] = "reload" /\ ret[th] = RetNone
    /\ \E object \in published :
          /\ heap[object].data = DocHost
          /\ heap[object].schema = SchemaExample
          /\ fs[heap[object].json_file] = Readable(DocHost)
          /\ fs[heap[object].schema_file] = Readable(SchemaExample)

\* the step is a reset: an operation is counted and no thread moves
ResetStep == ops' = ops + 1 /\ pc' = pc

(***************************************************************************)
(* C13: reset can be called in any state and empties the registry for      *)
(* every type, leaving the objects and the lock alone.  A getInstance      *)
(* call that then finds no entry takes the way of a first call: it goes    *)
(* for the lock, fails with MissingRequiredArguments when a path is        *)
(* missing, and otherwise runs the pipeline; the object a passing          *)
(* pipeline registers is one never handed out before, built from the       *)
(* paths of that call.                                                     *)
(***************************************************************************)
C13_ResetForgetsInstances ==
    [][/\ ops < MaxOps => ENABLED reset
       /\ ResetStep => /\ instances' = [type \in Types |-> 0]
                       /\ heap' = heap /\ lock' = lock /\ published' = published
       /\ \A th \in Threads :
             /\ (/\ pc[th] = "idle" /\ pc'[th] # "idle" /\ op'[th] = "getInstance"
                 /\ ~Registered(instances, cls'[th]))
                => pc'[th] = "m_acquire"
             /\ (/\ pc[th] = "m_locked" /\ pc'[th] # "m_locked"
                 /\ ~Registered(instances, cls[th]))
                => IF Falsy(kw[th].json_file) \/ Falsy(kw[th].schema_file)
                   THEN ret'[th] = RetErr(MissingRequiredArguments, "args")
                   ELSE pc'[th] = "check_files" /\ self'[th] \notin published
             /\ (Constructing(th) /\ pc'[th] = "m_return")
                => /\ instances'[cls[th]] = self[th]
                   /\ self[th] \notin published
                   /\ heap'[self[th]].json_file = kw[th].json_file
                   /\ heap'[self[th]].schema_file = kw[th].schema_file]_vars

\* an object was built and returned, the registry was reset, and a call
\* passing other paths built and returned a second object, now registered
C13_Witness ==
    \E t1, t2 \in Threads :
       /\ Got(t1, "Configuration", "built")
       /\ Got(t2, "Configuration", "built")
       /\ ret[t1].o # ret[t2].o
       /\ instances["Configuration"] = ret[t2].o
       /\ kw[t2] # kw[t1]
       /\ heap[ret[t1].o].json_file = kw[t1].json_file
       /\ heap[ret[t2].o].json_file = kw[t2].json_file
       /\ heap[ret[t2].o].schema_file = kw[t2].schema_file

(***************************************************************************)
(* C14 as stated: of the callers that request a type concurrently while    *)
(* it has no entry, one runs a construction; a caller that has waited for  *)
(* the lock through that construction, passed or failed, runs none.        *)
(***************************************************************************)
C14_OnlyOnePipelineRuns ==
    \A th \in Threads : Constructing(th) => waited[th] = ""

(***************************************************************************)
(* C14 amended: one construction runs at a time.  A caller that found no   *)
(* entry takes the lock only when no construction is running, and then     *)
(* looks the type up again: with an entry it returns without constructing  *)
(* (so a caller that waited through a construction that passed runs none,  *)
(* until a reset); without one, which is the case after a construction     *)
(* that failed, it runs a construction of its own when it has both paths   *)
(* and fails with MissingRequiredArguments when not.                       *)
(***************************************************************************)
C14_OnePipelineAtATime ==
    [][/\ Cardinality({th \in Threads : Constructing(th)}) <= 1
       /\ \A th \in Threads :
             /\ Constructing(th) => lock = th /\ waited[th] # "ok"
             /\ Step(th, "m_acquire", "m_locked")
                => /\ lock = "free" /\ lock' = th
                   /\ \A other \in Threads : ~Constructing(other)
             /\ (pc[th] = "m_acquire" /\ lock \notin {"free", th})
                => pc'[th] = "m_acquire"
             /\ (pc[th] = "m_locked" /\ pc'[th] # "m_locked")
                => IF Registered(instances, cls[th])
                   THEN pc'[th] = "m_return" /\ heap' = heap
                   ELSE IF Falsy(kw[th].json_file) \/ Falsy(kw[th].schema_file)
                   THEN ret'[th] = RetErr(MissingRequiredArguments, "args")
                   ELSE Constructing(th)']_vars

\* a construction of Configuration failed while the other thread waited
\* for the lock; the waiting thread then built the object itself
C14_Witness ==
    \E t1, t2 \in Threads :
       /\ pc[t1] = "idle" /\ op[t1] = "getInstance" /\ cls[t1] = "Configuration"
       /\ ret[t1].k = "err" /\ ret[t1].at \in PipelinePcs
       /\ waited[t2] = "failed"
       /\ Got(t2, "Configuration", "built")
       /\ instances["Configuration"] = ret[t2].o

(***************************************************************************)
(* C15: the class, document path and schema path of an object are those    *)
(* it was allocated with: no step of a getInstance call, a get or a        *)
(* reload, passing or failing, changes them for as long as the object      *)
(* exists; and a reload checks and reads the files those paths name.       *)
(***************************************************************************)
C15_PathsFixed ==
    [][/\ \A object \in ObjIds :
             (heap[object] # NoObj /\ heap'[object] # NoObj)
             => /\ heap'[object].class = heap[object].class
                /\ heap'[object].json_file = heap[object].json_file
                /\ heap'[object].schema_file = heap[object].schema_file
       /\ \A th \in Threads :
             LET object == heap[self[th]]
             IN  /\ (Reloading(th) /\ pc[th] = "check_files" /\ pc'[th] # pc[th])
                    => LET r == check_files(fs, object.json_file, object.schema_file)
                       IN  IF r = Ok THEN pc'[th] = "load_data"
                           ELSE ret'[th] = RetErr(r, "check_files")
                 /\ (Reloading(th) /\ Step(th, "load_data", "load_schema"))
                    => heap'[self[th]].data = FileAt(fs, object.json_file).text
                 /\ (Reloading(th) /\ Step(th, "load_schema", "validate_schema"))
                    => heap'[self[th]].schema = FileAt(fs, object.schema_file).text]_vars

\* the object one call built has been reloaded without success, and the
\* other thread's call passing the two paths exchanged has returned it: it
\* still has the paths of the call that built it
C15_Witness ==
    \E t1, t2 \in Threads :
       /\ Got(t1, "Configuration", "built")
       /\ Got(t2, "Configuration", "fast")
       /\ ret[t2].o = ret[t1].o
       /\ kw[t1] = [json_file |-> "p1", schema_file |-> "p2"]
       /\ kw[t2] = [json_file |-> "p2", schema_file |-> "p1"]
       /\ lastRun[ret[t1].o] = "failed"
       /\ heap[ret[t1].o].json_file = "p1"
       /\ heap[ret[t1].o].schema_file = "p2"

(***************************************************************************)
(* C16: a getInstance call that finds an entry for its type at its first   *)
(* look-up never takes or waits for the lock, whoever holds it: it goes    *)
(* to its return, which can always be taken, and on that way the lock is   *)
(* left to its holder.                                                     *)
(***************************************************************************)
C16_FastPathTakesNoLock ==
    [][\A th \in Threads :
         /\ (/\ pc[th] = "idle" /\ pc'[th] # "idle" /\ op'[th] = "getInstance"
             /\ Registered(instances, cls'[th]))
            => pc'[th] = "m_return" /\ route'[th] = "fast" /\ lock' = lock
         /\ route[th] = "fast"
            => /\ pc[th] = "m_return" /\ lock # th
               /\ ENABLED Return(th)
               /\ pc'[th] \in {"m_return", "idle"}
               /\ pc'[th] = "idle" => lock' = lock
               /\ (pc'[th] = "idle" /\ Registered(instances, cls[th]))
                  => ret'[th].k = "obj" /\ ret'[th].o = instances[cls[th]]]_vars

\* a call for the registered Configuration has returned it while the
\* other thread holds the lock in a first construction of ConfigKit
C16_Witness ==
    \E t1, t2 \in Threads :
       /\ Got(t1, "Configuration", "fast")
       /\ ret[t1].o = instances["Configuration"]
       /\ Constructing(t2) /\ cls[t2] = "ConfigKit"
       /\ lock = t2

(***************************************************************************)
(* C17: every getInstance call ends, with an object or with an error.  No  *)
(* thread keeps the lock beyond the locked block of its call: a thread     *)
(* that is not between taking the lock and the end of its construction     *)
(* does not hold it, whether the construction passed, failed, or the call  *)
(* failed for want of a path.                                              *)
(***************************************************************************)
C17_GetInstanceTerminates ==
    /\ [](\A th \in Threads :
            lock = th => pc[th] = "m_locked" \/ Constructing(th))
    /\ \A th \in Threads :
          (op[th] = "getInstance" /\ pc[th] # "idle")
             ~> (/\ op[th] = "getInstance" /\ pc[th] = "idle"
                 /\ ret[th].k \in {"obj", "err"})

\* a construction failed, a call failed with MissingRequiredArguments, and
\* the lock is free
C17_Witness ==
    \E t1, t2 \in Threads :
       /\ pc[t1] = "idle" /\ op[t1] = "getInstance"
       /\ ret[t1].k = "err" /\ ret[t1].at \in PipelinePcs
       /\ pc[t2] = "idle" /\ op[t2] = "getInstance"
       /\ ret[t2] = RetErr(MissingRequiredArguments, "args")
       /\ lock = "free"

(***************************************************************************)
(* C18: a reload whose file check finds the document or the schema absent  *)
(* or unreadable ends there with FileNotFound or PermissionDenied.         *)
(* Neither its call nor its file check changes an object, the registry,    *)
(* the lock or the set of references held: data, schema and paths stay,    *)
(* and the object stays registered and in the hands of its callers, with   *)
(* its data loaded.                                                        *)
(***************************************************************************)
C18_FailedFileCheckChangesNothing ==
    [][\A th \in Threads :
         LET object == heap[self[th]]
             doc == FileAt(fs, object.json_file)
             sch == FileAt(fs, object.schema_file)
         IN  /\ (pc[th] = "idle" /\ pc'[th] # "idle" /\ op'[th] = "reload")
                => /\ pc'[th] = "check_files"
                   /\ heap' = heap /\ instances' = instances /\ lock' = lock
             /\ (Reloading(th) /\ pc[th] = "check_files" /\ pc'[th] # pc[th])
                => IF doc.exists /\ doc.readable /\ sch.exists /\ sch.readable
                   THEN pc'[th] = "load_data" /\ heap' = heap
                   ELSE /\ pc'[th] = "idle"
                        /\ ret'[th].k = "err" /\ ret'[th].at = "check_files"
                        /\ ret'[th].e \in {FileNotFound, PermissionDenied}
                        /\ heap' = heap /\ instances' = instances /\ lock' = lock
                        /\ published' = published
                        /\ self[th] \in published
                        /\ heap'[self[th]].data # Unset]_vars

\* the schema file of the registered example object was made unreadable; a
\* reload failed at the file check and the object holds what it held, and
\* a get on it has given the host
C18_Witness ==
    \E t1, t2 \in Threads :
       /\ pc[t1] = "idle" /\ op[t1] = "reload"
       /\ ret[t1] = RetErr(PermissionDenied, "check_files")
       /\ fs["p2"] = Unreadable
       /\ instances["Configuration"] # 0
       /\ LET object == heap[instances["Configuration"]]
          IN  /\ object.json_file = "p1" /\ object.schema_file = "p2"
              /\ object.data = DocHost /\ object.schema = SchemaExample
       /\ pc[t2] = "idle" /\ op[t2] = "get" /\ ret[t2] = RetVal(JStrX)

(***************************************************************************)
(* C19: a get resolves its whole path against one document.  It reads the  *)
(* data of the object once, when it is called; whatever a reload assigns   *)
(* to the object before the get has walked its path, the result is that    *)
(* of the reference on the data the object held at the call or on the      *)
(* data it holds now, and the get changes no object.                       *)
(***************************************************************************)
C19_GetSeesOneDocument ==
    [][\A th \in Threads :
         /\ Step(th, "idle", "get_loop")
            => current'[th] = heap[self'[th]].data /\ heap' = heap
         /\ Step(th, "get_loop", "idle")
            => /\ \/ ret'[th] = GetReference(before[th].data, gpath[th], gdefault[th])
                  \/ ret'[th] = GetReference(heap[self[th]].data, gpath[th],
                                             gdefault[th])
               /\ heap' = heap]_vars

\* a get has read the example document and not yet walked its path; the
\* reload the other thread runs on the same object has replaced the data
\* since
C19_Witness ==
    \E th, other \in Threads :
       /\ pc[th] = "get_loop" /\ gpath[th] = PathDH
       /\ current[th] = DocHost
       /\ Reloading(other) /\ self[other] = self[th]
       /\ before[other].data = DocHost
       /\ heap[self[th]].data \notin {DocHost, Unset}

====
